---- MODULE Spec2Model ----
(***************************************************************************)
(* A model of the subtitle reflow engine (src/utils/merge.py), of the      *)
(* timed-text store (load_srt / save_srt) and of the duration reconciler   *)
(* (src/utils/speedometer.py).                                             *)
(*                                                                         *)
(* Representation.                                                         *)
(*  - A text is the sequence of its whitespace-delimited words, which is   *)
(*    what text.split() yields; a word is [id, term], id naming the word   *)
(*    and term saying whether its last character is '.', '?' or '!'.       *)
(*    `a + ' ' + b` is then concatenation and ' '.join(ws) is ws.          *)
(*  - A timestamp 'HH:MM:SS.mmm' is its number of milliseconds; a datetime *)
(*    and a timedelta are numbers of microseconds.                         *)
(***************************************************************************)
EXTENDS Integers, Sequences, FiniteSets, TLC

VARIABLES
    subtitles,   \* merge_subtitles: the argument, as it was when the call began
    min_words,   \* merge_subtitles: parameter
    max_words,   \* merge_subtitles: parameter
    pos,         \* merge_subtitles: number of entries the for loop has consumed
    current,     \* merge_subtitles: the accumulator (None before the first entry)
    merged,      \* merge_subtitles: the output list
    pc,          \* merge_subtitles: "loop", "done" (returned) or "raised"
    origin,      \* history: for each entry of merged, the line that appended it
    branch,      \* history: the branch the last iteration took
    last_split,  \* history: the split the last iteration performed, if any
    refs,        \* for each entry of merged, the dict object the list holds
    cur_ref,     \* the dict object `current` is bound to (0 for None)
    next_ref,    \* the next dict object a dict display creates
    srt_seq,     \* save_srt: the argument `subtitles`
    srt_file,    \* the content of the file at the path given to save_srt / load_srt
    srt_loaded,  \* load_srt: the list it returned
    srt_pc,      \* the store: "save", "load", "loaded" or "raised"
    srt_written, \* history: srt_file is what save_srt wrote
    audio_exists,     \* os.path.exists(audio_path)
    srt_exists,       \* os.path.exists(srt_path)
    subs,             \* what pysrt.open(srt_path) does: raises, or returns a timeline
    probe_stdout,     \* what ffprobe prints: a duration, or something float() rejects
    target_duration,  \* adjust_audio_length_ffmpeg: local (a float)
    current_duration, \* adjust_audio_length_ffmpeg: local (a float)
    stretch_factor,   \* adjust_audio_length_ffmpeg: local (a float)
    atempo_factors,   \* adjust_audio_length_ffmpeg: local (a list of floats)
    calls,            \* history: the subprocess.run invocations, in order
    result,           \* adjust_audio_length_ffmpeg: "none" or the value returned
    r_pc,             \* adjust_audio_length_ffmpeg: the statement reached
    path,             \* history: "copy" or "stretch" once line 71 has chosen
    failed_at,        \* history: the step that returned False
    audio_path,       \* adjust_audio_length_ffmpeg: argument
    output_path,      \* adjust_audio_length_ffmpeg: argument
    now,              \* the clock datetime.now() reads, in milliseconds
    ffmpeg_outcome,   \* what running ffmpeg does: "ok", "nonzero" exit, or "oserror"
    files_written,    \* history: the paths ffmpeg has written
    steps,            \* history: the steps the invocation has run, in order
    l_pc,                \* create_lip_sync_video / poll_job: the statement reached
    job_id,              \* create_lip_sync_video: what submit_generation returned
    status,              \* poll_job: local, the status of the last readable response
    responses,           \* history: what each GET of poll_job met, in order
    sleeps,              \* history: the number of time.sleep(10) calls
    generated_video_url, \* poll_job: the value it returned
    output_video_url,    \* create_lip_sync_video: the value it returned
    l_error              \* the exception poll_job or submit_generation raised

mergeVars == <<subtitles, min_words, max_words, pos, current, merged, pc, origin, branch,
               last_split, refs, cur_ref, next_ref>>

storeVars == <<srt_seq, srt_file, srt_loaded, srt_pc, srt_written>>

reconVars == <<audio_exists, srt_exists, subs, probe_stdout, target_duration,
               current_duration, stretch_factor, atempo_factors, calls, result, r_pc,
               path, failed_at, audio_path, output_path, now, ffmpeg_outcome,
               files_written, steps>>

pollVars == <<l_pc, job_id, status, responses, sleeps, generated_video_url,
              output_video_url, l_error>>

vars == <<mergeVars, storeVars, reconVars, pollVars>>

----------------------------------------------------------------------------
(* Bounds of the model *)

MaxEntries == 3
MaxTotalWords == 4
MaxTime == 3
MaxMaxWords == 2

----------------------------------------------------------------------------
(* Helpers *)

Min(a, b) == IF a <= b THEN a ELSE b

Max(a, b) == IF a >= b THEN a ELSE b

\* Python's None for the accumulator
None == [index |-> -1, start_time |-> -1, end_time |-> -1, text |-> <<>>]

\* quotient of a timedelta by an int: the nearest microsecond, ties to even
DivRoundHalfEven(a, b) ==
    LET q == a \div b
        r == a % b
    IN  IF 2 * r < b THEN q
        ELSE IF 2 * r > b THEN q + 1
        ELSE IF q % 2 = 0 THEN q ELSE q + 1

\* the lip-sync client's variables while it is not studied
PollIdle ==
    /\ l_pc = "idle"
    /\ job_id = "none"
    /\ status = "none"
    /\ responses = <<>>
    /\ sleeps = 0
    /\ generated_video_url = "none"
    /\ output_video_url = "none"
    /\ l_error = "none"

\* the store's variables while merge_subtitles alone is studied
StoreIdle ==
    /\ srt_seq = <<>>
    /\ srt_file = <<>>
    /\ srt_loaded = <<>>
    /\ srt_pc = "idle"
    /\ srt_written = FALSE

\* the reconciler's variables while it is not studied
ReconIdle ==
    /\ audio_exists = FALSE
    /\ srt_exists = FALSE
    /\ subs = [kind |-> "error", start |-> 0, end |-> 0]
    /\ probe_stdout = [kind |-> "garbage", ms |-> 0]
    /\ target_duration = [m |-> <<>>, x |-> 0]
    /\ current_duration = [m |-> <<>>, x |-> 0]
    /\ stretch_factor = [m |-> <<>>, x |-> 0]
    /\ atempo_factors = <<>>
    /\ calls = <<>>
    /\ result = "none"
    /\ r_pc = "idle"
    /\ path = "none"
    /\ failed_at = "none"
    /\ audio_path = <<>>
    /\ output_path = <<>>
    /\ now = 0
    /\ ffmpeg_outcome = "ok"
    /\ files_written = {}
    /\ steps = <<>>

----------------------------------------------------------------------------
(* merge.py: the pure functions *)

\* datetime.strptime(timestamp, '%H:%M:%S.%f'): milliseconds to microseconds
parse_time(timestamp) == timestamp * 1000

\* strftime('%H:%M:%S.%f')[:-3]: the last three digits are cut, not rounded
format_time(dt_obj) == dt_obj \div 1000

\* len(text.split())
WordCount(text) == Len(text)

\* text.strip()[-1] in {'.', '?', '!'}; only defined on a text with a word
is_complete_sentence(text) == text[Len(text)].term

\* text.strip()[-1] raises IndexError on a text without any word
SentenceCheckRaises(text) == Len(text) = 0

\* a variant that keeps only the full chunks: range(0, len(words) - max_words + 1, max_words)
split_subtitle_text_FullChunksOnly(text, maxw) ==
    LET n == Len(text) \div maxw
    IN  [k \in 1..n |-> SubSeq(text, (k - 1) * maxw + 1, k * maxw)]

split_subtitle_text(text, maxw) ==
    LET n == (Len(text) + maxw - 1) \div maxw
    IN  [k \in 1..n |-> SubSeq(text, (k - 1) * maxw + 1, Min(k * maxw, Len(text)))]

\* a variant that does not divide the duration by num_splits
distribute_time_Undivided(start_time, end_time, num_splits) ==
    LET start == parse_time(start_time)
        end == parse_time(end_time)
        total_duration == end - start
    IN  [k \in 1..num_splits |->
            <<format_time(start + (k - 1) * total_duration),
              format_time(start + k * total_duration)>>]

distribute_time(start_time, end_time, num_splits) ==
    LET start == parse_time(start_time)
        end == parse_time(end_time)
        total_duration == DivRoundHalfEven(end - start, num_splits)
    IN  [k \in 1..num_splits |->
            <<format_time(start + (k - 1) * total_duration),
              format_time(start + k * total_duration)>>]

----------------------------------------------------------------------------
(* merge.py: merge_subtitles, one action per iteration of its for loop *)

\* a variant of the merge that leaves end_time alone
MergeInto_KeepEnd(cur, subtitle) ==
    [cur EXCEPT !.text = cur.text \o subtitle.text]

\* lines 108-109 and 115-116; for texts as word sequences, joining with one
\* space is concatenation
MergeInto(cur, subtitle) ==
    [cur EXCEPT !.text = cur.text \o subtitle.text, !.end_time = subtitle.end_time]

\* line 107; `or` evaluates its right operand only when the left one is false
MergeCondition(cur, subtitle) ==
    IF WordCount(cur.text) + WordCount(subtitle.text) <= max_words
    THEN TRUE
    ELSE ~is_complete_sentence(cur.text)

\* line 107 evaluates is_complete_sentence only when the word test fails
MergeConditionRaises(cur, subtitle) ==
    /\ WordCount(cur.text) + WordCount(subtitle.text) > max_words
    /\ SentenceCheckRaises(cur.text)

\* a variant without the min_words test
FlushCondition_Always(cur) == TRUE

\* line 111
FlushCondition(cur) == WordCount(cur.text) >= min_words

\* a variant of the test that lets one word too many pass
SplitCondition_OffByOne(cur) == WordCount(cur.text) > max_words + 1

\* line 119
SplitCondition(cur) == WordCount(cur.text) > max_words

\* a variant that hands the intervals out last to first
SplitChunks_ReversedTimes(cur) ==
    LET split_texts == split_subtitle_text(cur.text, max_words)
        m == Len(split_texts)
        time_intervals == distribute_time(cur.start_time, cur.end_time, m)
    IN  [k \in 1..m |->
            [index |-> cur.index + (k - 1),
             start_time |-> time_intervals[m + 1 - k][1],
             end_time |-> time_intervals[m + 1 - k][2],
             text |-> split_texts[k]]]

\* lines 120-135: the chunks of cur, in order, with their intervals; chunk 1 is
\* cur refined in place, chunk k > 1 a new entry with the index of its
\* predecessor plus one
SplitChunks(cur) ==
    LET split_texts == split_subtitle_text(cur.text, max_words)
        time_intervals == distribute_time(cur.start_time, cur.end_time, Len(split_texts))
    IN  [k \in 1..Len(split_texts) |->
            [index |-> cur.index + (k - 1),
             start_time |-> time_intervals[k][1],
             end_time |-> time_intervals[k][2],
             text |-> split_texts[k]]]

\* a variant of line 130 that updates the accumulator's dict in place
ChunkRef_InPlace(k, ref, fresh) == ref

\* lines 124-135: the dict object that holds chunk k; chunk 1 is written into
\* the accumulator's dict (lines 125-126), every later chunk is a new dict
\* (line 130); the input's dicts are objects 1 .. Len(subtitles)
ChunkRef(k, ref, fresh) == IF k = 1 THEN ref ELSE fresh + (k - 2)

\* the entries of the list `out` after dict object `ref` was given the value
\* `val`: a list holds references, so an entry that is this object shows it
Written(out, rfs, ref, val) ==
    [j \in 1..Len(out) |-> IF rfs[j] = ref THEN val ELSE out[j]]

\* lines 118-135 applied to the output `out` (with its history `org` and its
\* objects `rfs`) and the accumulator `cur`, the object `ref`, that the
\* branch above left
SplitStep(out, org, rfs, ref, cur) ==
    IF SplitCondition(cur)
    THEN LET chunks == SplitChunks(cur)
             m == Len(chunks)
             obj == [k \in 1..m |-> ChunkRef(k, ref, next_ref)]
             \* the value a dict object has when the loop of line 123 ends
             last(r) == chunks[CHOOSE k \in 1..m :
                                  obj[k] = r /\ \A k2 \in (k + 1)..m : obj[k2] # r]
             written == { obj[k] : k \in 1..m }
             all == out \o SubSeq(chunks, 1, m - 1)
             allrefs == rfs \o SubSeq(obj, 1, m - 1)
         IN  /\ merged' = [j \in 1..Len(all) |->
                              IF allrefs[j] \in written THEN last(allrefs[j]) ELSE all[j]]
             /\ refs' = allrefs
             /\ origin' = org \o [k \in 1..(m - 1) |-> "split"]
             /\ current' = chunks[m]
             /\ cur_ref' = obj[m]
             /\ next_ref' = next_ref + (m - 1)
             /\ last_split' = <<[start_time |-> cur.start_time,
                                 end_time |-> cur.end_time,
                                 text |-> cur.text,
                                 chunks |-> chunks]>>
    ELSE /\ merged' = out
         /\ refs' = rfs
         /\ origin' = org
         /\ current' = cur
         /\ cur_ref' = ref
         /\ UNCHANGED next_ref
         /\ last_split' = <<>>

\* lines 99-101: the first entry becomes the accumulator; the split check,
\* which is inside the else branch, does not run
LoopFirst ==
    /\ pc = "loop"
    /\ pos < Len(subtitles)
    /\ current = None
    /\ current' = subtitles[pos + 1]
    /\ cur_ref' = pos + 1
    /\ pos' = pos + 1
    /\ last_split' = <<>>
    /\ branch' = "first"
    /\ UNCHANGED <<subtitles, min_words, max_words, merged, pc, origin, refs, next_ref>>
    /\ UNCHANGED <<storeVars, reconVars, pollVars>>

\* lines 107-109, then the split check
LoopMerge ==
    /\ pc = "loop"
    /\ pos < Len(subtitles)
    /\ current # None
    /\ LET subtitle == subtitles[pos + 1]
       IN  /\ ~MergeConditionRaises(current, subtitle)
           /\ MergeCondition(current, subtitle)
           /\ SplitStep(Written(merged, refs, cur_ref, MergeInto(current, subtitle)),
                        origin, refs, cur_ref, MergeInto(current, subtitle))
    /\ pos' = pos + 1
    /\ branch' = "merge"
    /\ UNCHANGED <<subtitles, min_words, max_words, pc>>
    /\ UNCHANGED <<storeVars, reconVars, pollVars>>

\* lines 110-111 and 114-116, then the split check
LoopAbsorb ==
    /\ pc = "loop"
    /\ pos < Len(subtitles)
    /\ current # None
    /\ LET subtitle == subtitles[pos + 1]
       IN  /\ ~MergeConditionRaises(current, subtitle)
           /\ ~MergeCondition(current, subtitle)
           /\ ~FlushCondition(current)
           /\ SplitStep(Written(merged, refs, cur_ref, MergeInto(current, subtitle)),
                        origin, refs, cur_ref, MergeInto(current, subtitle))
    /\ pos' = pos + 1
    /\ branch' = "absorb"
    /\ UNCHANGED <<subtitles, min_words, max_words, pc>>
    /\ UNCHANGED <<storeVars, reconVars, pollVars>>

\* lines 110-113, then the split check
LoopFlush ==
    /\ pc = "loop"
    /\ pos < Len(subtitles)
    /\ current # None
    /\ LET subtitle == subtitles[pos + 1]
       IN  /\ ~MergeConditionRaises(current, subtitle)
           /\ ~MergeCondition(current, subtitle)
           /\ FlushCondition(current)
           /\ SplitStep(Append(merged, current), Append(origin, "flush"),
                        Append(refs, cur_ref), pos + 1, subtitle)
    /\ pos' = pos + 1
    /\ branch' = "flush"
    /\ UNCHANGED <<subtitles, min_words, max_words, pc>>
    /\ UNCHANGED <<storeVars, reconVars, pollVars>>

\* line 107 -> line 47: IndexError leaves merge_subtitles
LoopRaise ==
    /\ pc = "loop"
    /\ pos < Len(subtitles)
    /\ current # None
    /\ MergeConditionRaises(current, subtitles[pos + 1])
    /\ pc' = "raised"
    /\ UNCHANGED <<subtitles, min_words, max_words, pos, current, merged, origin, branch,
                   last_split, refs, cur_ref, next_ref>>
    /\ UNCHANGED <<storeVars, reconVars, pollVars>>

\* a variant of the last test that also asks for min_words words
FinalCondition_MinWords(cur) == cur # None /\ WordCount(cur.text) >= min_words

\* line 138: `if current:`, true of every entry and false of None
FinalCondition(cur) == cur # None

\* lines 137-142
FinalFlush ==
    /\ pc = "loop"
    /\ pos = Len(subtitles)
    /\ IF FinalCondition(current)
       THEN /\ merged' = Append(merged, current)
            /\ origin' = Append(origin, "final")
            /\ refs' = Append(refs, cur_ref)
       ELSE UNCHANGED <<merged, origin, refs>>
    /\ pc' = "done"
    /\ last_split' = <<>>
    /\ branch' = "return"
    /\ UNCHANGED <<subtitles, min_words, max_words, pos, current, cur_ref, next_ref>>
    /\ UNCHANGED <<storeVars, reconVars, pollVars>>

----------------------------------------------------------------------------
(* The inputs of merge_subtitles *)

\* n consecutive entries' times: start < end, end <= the next start
RECURSIVE Timelines(_, _)
Timelines(n, t0) ==
    IF n = 0 THEN {<<>>}
    ELSE UNION { { <<se>> \o rest : rest \in Timelines(n - 1, se[2]) } :
                 se \in { p \in (t0..MaxTime) \X (t0..MaxTime) : p[1] < p[2] } }

\* a text of k words whose ids are base+1 .. base+k
TextsOf(k, base) ==
    { [i \in 1..k |-> [id |-> base + i, term |-> f[i]]] : f \in [1..k -> BOOLEAN] }

\* n entries' texts with at most `budget` words in all, ids in reading order
RECURSIVE Texts(_, _, _)
Texts(n, budget, base) ==
    IF n = 0 THEN {<<>>}
    ELSE UNION { UNION { { <<t>> \o rest : rest \in Texts(n - 1, budget - k, base + k) } :
                         t \in TextsOf(k, base) } :
                 k \in 0..budget }

Inputs ==
    UNION { { [i \in 1..n |-> [index |-> i,
                               start_time |-> tl[i][1],
                               end_time |-> tl[i][2],
                               text |-> tx[i]]] :
              tl \in Timelines(n, 0), tx \in Texts(n, MaxTotalWords, 0) } :
            n \in 0..MaxEntries }

Init ==
    /\ subtitles \in Inputs
    /\ max_words \in 1..MaxMaxWords
    /\ min_words \in 1..max_words
    /\ pos = 0
    /\ current = None
    /\ merged = <<>>
    /\ pc = "loop"
    /\ origin = <<>>
    /\ branch = "none"
    /\ last_split = <<>>
    /\ refs = <<>>
    /\ cur_ref = 0
    /\ next_ref = Len(subtitles) + 1
    /\ StoreIdle
    /\ ReconIdle
    /\ PollIdle

Next ==
    \/ LoopFirst
    \/ LoopMerge
    \/ LoopAbsorb
    \/ LoopFlush
    \/ LoopRaise
    \/ FinalFlush

Spec == Init /\ [][Next]_vars

----------------------------------------------------------------------------
(* Properties of merge_subtitles *)

\* the words of a sequence of entries, in reading order
RECURSIVE WordsOf(_)
WordsOf(entries) ==
    IF entries = <<>> THEN <<>> ELSE Head(entries).text \o WordsOf(Tail(entries))

AllTextsNonEmpty(entries) == \A i \in 1..Len(entries) : Len(entries[i].text) > 0

\* start < end in every entry, no overlap, start times strictly increasing
WellOrdered(entries) ==
    /\ \A i \in 1..Len(entries) : entries[i].start_time < entries[i].end_time
    /\ \A i \in 1..(Len(entries) - 1) :
          /\ entries[i].end_time <= entries[i + 1].start_time
          /\ entries[i].start_time < entries[i + 1].start_time

Abs(x) == IF x < 0 THEN -x ELSE x

\* C1 (text conservation): when merge_subtitles has returned on an input whose
\* texts are all non-empty, the words of the output entries, in output order,
\* are the words of the input entries in input order.
C1_TextConservation ==
    (pc = "done" /\ AllTextsNonEmpty(subtitles)) => WordsOf(merged) = WordsOf(subtitles)

\* a run that flushed an entry, split an accumulator and returned
C1_Witness ==
    /\ pc = "done"
    /\ AllTextsNonEmpty(subtitles)
    /\ \E i \in 1..Len(origin) : origin[i] = "flush"
    /\ \E i \in 1..Len(origin) : origin[i] = "split"

\* C2 (time-span conservation): when merge_subtitles has returned on a non-empty
\* input, last end_time minus first start_time of the output equals last
\* end_time minus first start_time of the input.
C2_TimeSpanConserved ==
    (pc = "done" /\ Len(subtitles) > 0) =>
        merged[Len(merged)].end_time - merged[1].start_time
            = subtitles[Len(subtitles)].end_time - subtitles[1].start_time

\* C3 (upper bound): every entry of the output has at most max_words words.
C3_UpperBound ==
    pc = "done" => \A i \in 1..Len(merged) : WordCount(merged[i].text) <= max_words

\* C4 (lower bound): an entry the non-merge branch flushes has at least
\* min_words words, and every output entry but the last has at least min_words
\* words or is a chunk of a forced split.
C4_LowerBound ==
    /\ \A i \in 1..Len(merged) :
          origin[i] = "flush" => WordCount(merged[i].text) >= min_words
    /\ pc = "done" =>
          \A i \in 1..(Len(merged) - 1) :
              WordCount(merged[i].text) >= min_words \/ origin[i] = "split"

\* a returned run in which a short accumulator was absorbed instead of flushed
\* and a long enough one was flushed
C4_Witness ==
    /\ pc = "done"
    /\ min_words > 1
    /\ \E i \in 1..(Len(merged) - 1) : origin[i] = "flush"
    /\ \E i \in 1..Len(subtitles) :
          /\ WordCount(subtitles[i].text) > 0
          /\ WordCount(subtitles[i].text) < min_words

\* C5 (split proportionality): when an accumulator spanning [start, end] of
\* duration T is split into m chunks, the first chunk starts at start, each
\* chunk ends where the next begins, and each chunk's duration is within 1 ms
\* of T/m.
C5_SplitProportional ==
    last_split # <<>> =>
        LET sp == last_split[1]
            m == Len(sp.chunks)
            T == sp.end_time - sp.start_time
        IN  /\ m >= 2
            /\ sp.chunks[1].start_time = sp.start_time
            /\ \A k \in 1..(m - 1) : sp.chunks[k].end_time = sp.chunks[k + 1].start_time
            /\ \A k \in 1..m :
                  Abs(m * (sp.chunks[k].end_time - sp.chunks[k].start_time) - T) <= m

\* a split into three chunks of a duration that three does not divide
C5_Witness ==
    /\ last_split # <<>>
    /\ Len(last_split[1].chunks) = 3
    /\ (last_split[1].end_time - last_split[1].start_time) % 3 # 0

\* C6 (sequence invariant): the input being well ordered, the output of
\* merge_subtitles is well ordered: start < end in every entry, each end at
\* most the next start, start times strictly increasing.
C6_SequenceInvariant ==
    (pc = "done" /\ WellOrdered(subtitles)) => WellOrdered(merged)

----------------------------------------------------------------------------
(* Strings.  A string is the sequence of its characters; the operators below *)
(* are Python's str methods as load_srt and save_srt use them.               *)

NL == "\n"

SP == " "

Digits == <<"0", "1", "2", "3", "4", "5", "6", "7", "8", "9">>

\* the separator of line 2 of a block: ' --> '
ARROW == <<SP, "-", "-", ">", SP>>

IsSpace(c) == c \in {SP, NL}

IsDigit(c) == \E d \in 1..10 : Digits[d] = c

DigitValue(c) == (CHOOSE d \in 1..10 : Digits[d] = c) - 1

RECURSIVE LStrip(_)
LStrip(s) == IF s # <<>> /\ IsSpace(Head(s)) THEN LStrip(Tail(s)) ELSE s

RECURSIVE RStrip(_)
RStrip(s) ==
    IF s # <<>> /\ IsSpace(s[Len(s)]) THEN RStrip(SubSeq(s, 1, Len(s) - 1)) ELSE s

\* s.strip()
Strip(s) == RStrip(LStrip(s))

\* s.find(sep) + 1: where the leftmost occurrence of sep begins, 0 if there is none
Find(s, sep) ==
    LET occ == { i \in 1..(Len(s) - Len(sep) + 1) : SubSeq(s, i, i + Len(sep) - 1) = sep }
    IN  IF occ = {} THEN 0 ELSE CHOOSE i \in occ : \A j \in occ : i <= j

\* s.split(sep), and re.split of a pattern that is a fixed string: the pieces
\* between the non-overlapping occurrences of sep, found from the left
RECURSIVE Split(_, _)
Split(s, sep) ==
    LET i == Find(s, sep)
    IN  IF i = 0 THEN <<s>>
        ELSE <<SubSeq(s, 1, i - 1)>> \o Split(SubSeq(s, i + Len(sep), Len(s)), sep)

\* sep.join(parts)
RECURSIVE Join(_, _)
Join(parts, sep) ==
    IF parts = <<>> THEN <<>>
    ELSE IF Len(parts) = 1 THEN parts[1]
    ELSE parts[1] \o sep \o Join(Tail(parts), sep)

\* the part of an int() argument after its optional sign
Unsigned(t) == IF t # <<>> /\ Head(t) \in {"+", "-"} THEN Tail(t) ELSE t

\* int(s) succeeds: optional whitespace around an optionally signed run of digits
IsIntLiteral(s) ==
    LET body == Unsigned(Strip(s))
    IN  body # <<>> /\ \A i \in 1..Len(body) : IsDigit(body[i])

RECURSIVE DigitsValue(_)
DigitsValue(ds) ==
    IF ds = <<>> THEN 0
    ELSE 10 * DigitsValue(SubSeq(ds, 1, Len(ds) - 1)) + DigitValue(ds[Len(ds)])

\* int(s), for an s on which it succeeds
IntValue(s) ==
    LET t == Strip(s)
    IN  IF t # <<>> /\ Head(t) = "-" THEN -DigitsValue(Unsigned(t))
        ELSE DigitsValue(Unsigned(t))

\* str(n) of a natural number
RECURSIVE IntToStr(_)
IntToStr(n) ==
    IF n < 10 THEN <<Digits[n + 1]>> ELSE IntToStr(n \div 10) \o <<Digits[(n % 10) + 1]>>

----------------------------------------------------------------------------
(* merge.py: load_srt and save_srt *)

NoSubtitle == [index |-> 0, start_time |-> <<>>, end_time |-> <<>>, text |-> <<>>]

\* a variant of the except clause that names ValueError only
ExceptClause_ValueErrorOnly == {"ValueError"}

\* line 172: the exceptions the loop body catches
ExceptClause == {"ValueError", "IndexError"}

\* lines 163-171 for one block: exc is "short" when line 164 rejects the block,
\* else the exception the dict display raises ("none" if it raises nothing);
\* its values are evaluated in order: int(lines[0]), then the two pieces of
\* lines[1]
ParseEntry(entry) ==
    LET lines == Split(entry, <<NL>>)
    IN  IF Len(lines) < 2 THEN [exc |-> "short", sub |-> NoSubtitle]
        ELSE IF ~IsIntLiteral(lines[1]) THEN [exc |-> "ValueError", sub |-> NoSubtitle]
        ELSE LET parts == Split(lines[2], ARROW)
             IN  IF Len(parts) < 2 THEN [exc |-> "IndexError", sub |-> NoSubtitle]
                 ELSE [exc |-> "none",
                       sub |-> [index |-> IntValue(lines[1]),
                                start_time |-> parts[1],
                                end_time |-> parts[2],
                                text |-> Join(SubSeq(lines, 3, Len(lines)), <<SP>>)]]

IsParsed(r) == r.exc = "none"

\* lines 159-177: raised says that an exception left the function
load_srt(content) ==
    LET entries == Split(Strip(content), <<NL, NL>>)
        results == [i \in 1..Len(entries) |-> ParseEntry(entries[i])]
        kept == SelectSeq(results, IsParsed)
    IN  IF \E i \in 1..Len(results) :
              results[i].exc \notin (ExceptClause \cup {"none", "short"})
        THEN [raised |-> TRUE, subtitles |-> <<>>]
        ELSE [raised |-> FALSE, subtitles |-> [i \in 1..Len(kept) |-> kept[i].sub]]

\* a variant that writes the entry's own index instead of its position
SrtBlock_OwnIndex(i, subtitle) ==
    IntToStr(subtitle.index) \o <<NL>> \o subtitle.start_time \o ARROW
        \o subtitle.end_time \o <<NL>> \o subtitle.text \o <<NL, NL>>

\* line 191: the block written for the i-th entry
SrtBlock(i, subtitle) ==
    IntToStr(i) \o <<NL>> \o subtitle.start_time \o ARROW \o subtitle.end_time
        \o <<NL>> \o subtitle.text \o <<NL, NL>>

\* lines 189-191: the content of the file save_srt leaves
RECURSIVE SaveFrom(_, _)
SaveFrom(i, subtitles_) ==
    IF i > Len(subtitles_) THEN <<>>
    ELSE SrtBlock(i, subtitles_[i]) \o SaveFrom(i + 1, subtitles_)

save_srt(subtitles_) == SaveFrom(1, subtitles_)

\* save_srt(srt_seq, path)
SaveSrt ==
    /\ srt_pc = "save"
    /\ srt_file' = save_srt(srt_seq)
    /\ srt_written' = TRUE
    /\ srt_pc' = "load"
    /\ UNCHANGED <<srt_seq, srt_loaded>>
    /\ UNCHANGED <<mergeVars, reconVars, pollVars>>

\* load_srt(path)
LoadSrt ==
    /\ srt_pc = "load"
    /\ LET r == load_srt(srt_file)
       IN  /\ srt_loaded' = r.subtitles
           /\ srt_pc' = IF r.raised THEN "raised" ELSE "loaded"
    /\ UNCHANGED <<srt_seq, srt_file, srt_written>>
    /\ UNCHANGED <<mergeVars, reconVars, pollVars>>

----------------------------------------------------------------------------
(* The inputs of the store *)

MaxSrtEntries == 2
MaxLines == 5

\* timestamps HH:MM:SS.mmm
Stamp(s, m) == <<"0", "0", ":", "0", "0", ":", "0", s, ".", m, "0", "0">>

\* texts: the first four are non-empty, trimmed and on one line
SrtTexts ==
    { <<"a">>,
      <<"a", SP, "b">>,
      <<"1">>,
      <<"a", SP, "-", "-", ">", SP, "b">>,
      <<>>,
      <<"a", SP>>,
      <<"a", NL, "b">> }

\* an index and the times that go with it
SrtSlots ==
    { [index |-> 7, start_time |-> Stamp("0", "0"), end_time |-> Stamp("1", "5")],
      [index |-> 1, start_time |-> Stamp("1", "5"), end_time |-> Stamp("2", "0")] }

SrtEntries ==
    { [index |-> t.index, start_time |-> t.start_time, end_time |-> t.end_time, text |-> x] :
        t \in SrtSlots, x \in SrtTexts }

RECURSIVE SeqsUpTo(_, _)
SeqsUpTo(S, n) ==
    IF n = 0 THEN {<<>>}
    ELSE SeqsUpTo(S, n - 1) \cup
         { Append(q, x) : q \in { p \in SeqsUpTo(S, n - 1) : Len(p) = n - 1 }, x \in S }

\* the lines a file is made of
SrtLines ==
    { <<>>,
      <<"1">>,
      <<"2", SP>>,
      <<"a">>,
      <<"0">> \o ARROW \o <<"1">>,
      <<"0", SP, "-", "-", ">">> }

\* a file of at most MaxLines lines
SrtContents == { Join(ls, <<NL>>) : ls \in SeqsUpTo(SrtLines, MaxLines) }

MergeIdle ==
    /\ subtitles = <<>>
    /\ min_words = 1
    /\ max_words = 1
    /\ pos = 0
    /\ current = None
    /\ merged = <<>>
    /\ pc = "idle"
    /\ origin = <<>>
    /\ branch = "none"
    /\ last_split = <<>>
    /\ refs = <<>>
    /\ cur_ref = 0
    /\ next_ref = 1

\* either a sequence to save and load back, or a file to load
InitStore ==
    /\ MergeIdle
    /\ ReconIdle
    /\ PollIdle
    /\ srt_loaded = <<>>
    /\ srt_written = FALSE
    /\ \/ /\ srt_pc = "save"
          /\ srt_seq \in SeqsUpTo(SrtEntries, MaxSrtEntries)
          /\ srt_file = <<>>
       \/ /\ srt_pc = "load"
          /\ srt_seq = <<>>
          /\ srt_file \in SrtContents

NextStore ==
    \/ SaveSrt
    \/ LoadSrt

SpecStore == InitStore /\ [][NextStore]_vars

----------------------------------------------------------------------------
(* Properties of the store *)

WellFormedTime(t) ==
    /\ Len(t) = 12
    /\ \A i \in 1..12 :
          IF i \in {3, 6} THEN t[i] = ":"
          ELSE IF i = 9 THEN t[i] = "."
          ELSE IsDigit(t[i])

\* non-empty, trimmed, on a single line
WellFormedText(x) ==
    /\ x # <<>>
    /\ ~IsSpace(x[1])
    /\ ~IsSpace(x[Len(x)])
    /\ \A i \in 1..Len(x) : x[i] # NL

WellFormedSeq(q) ==
    \A i \in 1..Len(q) :
        /\ WellFormedTime(q[i].start_time)
        /\ WellFormedTime(q[i].end_time)
        /\ WellFormedText(q[i].text)

Contains(s, sep) ==
    \E i \in 1..(Len(s) - Len(sep) + 1) : SubSeq(s, i, i + Len(sep) - 1) = sep

\* the blocks of a file and the lines of a block
BlocksOf(content) == Split(Strip(content), <<NL, NL>>)

LinesOf(block) == Split(block, <<NL>>)

\* fewer than 2 lines, a non-integer index line, or no ' --> ' on line 2
Malformed(block) ==
    IF Len(LinesOf(block)) < 2 THEN TRUE
    ELSE IF ~IsIntLiteral(LinesOf(block)[1]) THEN TRUE
    ELSE ~Contains(LinesOf(block)[2], ARROW)

NotMalformed(block) == ~Malformed(block)

\* C7 (round trip): load_srt applied to what save_srt wrote for a well-formed
\* sequence returns a sequence of the same length whose i-th entry has index i
\* and the start_time, end_time and text of the i-th entry saved.
C7_RoundTrip ==
    (srt_written /\ srt_pc \in {"loaded", "raised"} /\ WellFormedSeq(srt_seq)) =>
        /\ srt_pc = "loaded"
        /\ Len(srt_loaded) = Len(srt_seq)
        /\ \A i \in 1..Len(srt_seq) :
              srt_loaded[i] = [index |-> i,
                               start_time |-> srt_seq[i].start_time,
                               end_time |-> srt_seq[i].end_time,
                               text |-> srt_seq[i].text]

\* two well-formed entries, neither numbered by its position, saved and loaded
C7_Witness ==
    /\ srt_written
    /\ srt_pc = "loaded"
    /\ WellFormedSeq(srt_seq)
    /\ Len(srt_seq) = 2
    /\ \A i \in 1..2 : srt_seq[i].index # i
    /\ Contains(srt_seq[1].text, ARROW)

\* C8 (best-effort parsing): load_srt returns, whatever the file holds; it
\* returns one entry per block that is not malformed, in file order, each with
\* the block's lines 3.. joined by single spaces as its text.
C8_BestEffortParsing ==
    srt_pc \in {"loaded", "raised"} =>
        /\ srt_pc = "loaded"
        /\ LET good == SelectSeq(BlocksOf(srt_file), NotMalformed)
           IN  /\ Len(srt_loaded) = Len(good)
               /\ \A i \in 1..Len(good) :
                     /\ srt_loaded[i].index = IntValue(LinesOf(good[i])[1])
                     /\ srt_loaded[i].text =
                            Join(SubSeq(LinesOf(good[i]), 3, Len(LinesOf(good[i]))), <<SP>>)

\* a file with a block without ' --> ', a block with a non-integer index line
\* or a single line, and a block that is returned
C8_Witness ==
    /\ srt_pc = "loaded"
    /\ ~srt_written
    /\ Len(srt_loaded) >= 1
    /\ \E i \in 1..Len(BlocksOf(srt_file)) :
          LET ls == LinesOf(BlocksOf(srt_file)[i])
          IN  Len(ls) >= 2 /\ IsIntLiteral(ls[1]) /\ ~Contains(ls[2], ARROW)

----------------------------------------------------------------------------
(* Python floats.  A float is an IEEE 754 binary64 number; the reconciler's  *)
(* durations and factors are finite, non-negative and far from the subnormal *)
(* and overflow ranges, so a float is modelled as [m, x], standing for       *)
(* m * 2^x with 2^52 <= m < 2^53 (m = 0 for zero), and every operation       *)
(* returns the exact result rounded to nearest, ties to even.  m does not    *)
(* fit the model checker's integers: a natural number is the sequence of its *)
(* digits in base 2^15, least significant first, without leading zeros.      *)

Base == 32768

BaseBits == 15

RECURSIVE Pow2(_)
Pow2(k) == IF k = 0 THEN 1 ELSE 2 * Pow2(k - 1)

RECURSIVE BNorm(_)
BNorm(a) == IF a # <<>> /\ a[Len(a)] = 0 THEN BNorm(SubSeq(a, 1, Len(a) - 1)) ELSE a

RECURSIVE BN(_)
BN(n) == IF n = 0 THEN <<>> ELSE <<n % Base>> \o BN(n \div Base)

BRest(a) == IF a = <<>> THEN <<>> ELSE Tail(a)

BLow(a) == IF a = <<>> THEN 0 ELSE Head(a)

RECURSIVE BAddC(_, _, _)
BAddC(a, b, c) ==
    IF a = <<>> /\ b = <<>> THEN (IF c = 0 THEN <<>> ELSE <<c>>)
    ELSE LET t == BLow(a) + BLow(b) + c
         IN  <<t % Base>> \o BAddC(BRest(a), BRest(b), t \div Base)

BAdd(a, b) == BAddC(a, b, 0)

\* a - b - c, for a >= b + c
RECURSIVE BSubC(_, _, _)
BSubC(a, b, c) ==
    IF a = <<>> THEN <<>>
    ELSE LET t == BLow(a) - BLow(b) - c
         IN  <<t % Base>> \o BSubC(BRest(a), BRest(b), IF t < 0 THEN 1 ELSE 0)

BSub(a, b) == BNorm(BSubC(a, b, 0))

\* a * s + c, for 0 <= s < Base
RECURSIVE BMulC(_, _, _)
BMulC(a, s, c) ==
    IF a = <<>> THEN (IF c = 0 THEN <<>> ELSE <<c>>)
    ELSE LET t == Head(a) * s + c
         IN  <<t % Base>> \o BMulC(Tail(a), s, t \div Base)

BMulSmall(a, s) == BNorm(BMulC(a, s, 0))

\* a < b
BLess(a, b) ==
    IF Len(a) # Len(b) THEN Len(a) < Len(b)
    ELSE \E i \in 1..Len(a) :
            /\ a[i] < b[i]
            /\ \A j \in (i + 1)..Len(a) : a[j] = b[j]

\* the number of binary digits of 0 <= n < Base, and of a
SmallBits(n) == IF n = 0 THEN 0 ELSE CHOOSE k \in 1..BaseBits : Pow2(k - 1) <= n /\ n < Pow2(k)

BitLen(a) == IF a = <<>> THEN 0 ELSE BaseBits * (Len(a) - 1) + SmallBits(a[Len(a)])

\* a * 2^k
BShl(a, k) ==
    IF a = <<>> THEN <<>>
    ELSE [i \in 1..(k \div BaseBits) |-> 0] \o BMulSmall(a, Pow2(k % BaseBits))

\* a \div 2
BHalf(a) ==
    BNorm([i \in 1..Len(a) |->
              (a[i] \div 2) + (IF i < Len(a) THEN (a[i + 1] % 2) * (Base \div 2) ELSE 0)])

\* the greatest digit g in lo..hi with g * d <= r, given lo * d <= r
RECURSIVE QuotDigit(_, _, _, _)
QuotDigit(r, d, lo, hi) ==
    IF lo = hi THEN lo
    ELSE LET mid == (lo + hi + 1) \div 2
         IN  IF BLess(r, BMulSmall(d, mid)) THEN QuotDigit(r, d, lo, mid - 1)
             ELSE QuotDigit(r, d, mid, hi)

\* the quotient and the remainder of n by d, by long division: the digits of
\* n from the i-th down are still to be brought down
RECURSIVE BDivFrom(_, _, _, _, _)
BDivFrom(n, d, i, quot, rem) ==
    IF i = 0 THEN [q |-> BNorm(quot), r |-> rem]
    ELSE LET r2 == BNorm(<<n[i]>> \o rem)
             g == QuotDigit(r2, d, 0, Base - 1)
         IN  BDivFrom(n, d, i - 1, <<g>> \o quot, BSub(r2, BMulSmall(d, g)))

BDivMod(n, d) == BDivFrom(n, d, Len(n), <<>>, <<>>)

FZero == [m |-> <<>>, x |-> 0]

\* the float nearest to p / q (ties to even), for naturals p and q > 0
RoundRatio(p, q) ==
    IF p = <<>> THEN FZero
    ELSE LET e0 == BitLen(p) - BitLen(q)
             \* e = floor(log2(p / q)) is e0 or e0 - 1
             e == IF BLess(BShl(p, IF e0 < 0 THEN -e0 ELSE 0),
                           BShl(q, IF e0 > 0 THEN e0 ELSE 0))
                  THEN e0 - 1 ELSE e0
             k == 53 - e
             \* 54 binary digits of the quotient: 53 and a guard digit
             dm == BDivMod(BShl(p, IF k > 0 THEN k ELSE 0), BShl(q, IF k < 0 THEN -k ELSE 0))
             guard == dm.q[1] % 2
             m0 == BHalf(dm.q)
             up == guard = 1 /\ (dm.r # <<>> \/ m0[1] % 2 = 1)
             m1 == IF up THEN BAdd(m0, <<1>>) ELSE m0
         IN  IF BitLen(m1) = 54 THEN [m |-> BHalf(m1), x |-> e - 52 + 1]
             ELSE [m |-> m1, x |-> e - 52]

\* float('n/d') for a decimal literal of value n / d, and n / d for ints n, d
FRatio(n, d) == RoundRatio(BN(n), BN(d))

FInt(n) == FRatio(n, 1)

\* a < b
FLess(a, b) ==
    LET xm == IF a.x <= b.x THEN a.x ELSE b.x
    IN  BLess(BShl(a.m, a.x - xm), BShl(b.m, b.x - xm))

\* the float nearest to m * 2^x
FScaled(m, x) ==
    IF x >= 0 THEN RoundRatio(BShl(m, x), <<1>>) ELSE RoundRatio(m, BShl(<<1>>, -x))

\* a + b
FAdd(a, b) ==
    LET xm == IF a.x <= b.x THEN a.x ELSE b.x
    IN  FScaled(BAdd(BShl(a.m, a.x - xm), BShl(b.m, b.x - xm)), xm)

\* abs(a - b)
FAbsDiff(a, b) ==
    LET xm == IF a.x <= b.x THEN a.x ELSE b.x
        am == BShl(a.m, a.x - xm)
        bm == BShl(b.m, b.x - xm)
    IN  FScaled(IF BLess(am, bm) THEN BSub(bm, am) ELSE BSub(am, bm), xm)

\* a / b, for b # 0
FDiv(a, b) ==
    IF a.m = <<>> THEN FZero
    ELSE RoundRatio(BShl(a.m, IF a.x > b.x THEN a.x - b.x ELSE 0),
                    BShl(b.m, IF b.x > a.x THEN b.x - a.x ELSE 0))

----------------------------------------------------------------------------
(* speedometer.py: adjust_audio_length_ffmpeg.  The timeline is the pair of *)
(* the first entry's start and the last entry's end, in milliseconds (pysrt *)
(* keeps milliseconds); ffprobe's output is a decimal number of seconds,    *)
(* given in milliseconds.                                                   *)

\* line 58
fine_threshold == FRatio(8, 100)

\* line 59
max_stretch_factor == FRatio(11, 10)

\* line 60
min_stretch_factor == FRatio(9, 10)

\* lines 41-42, one operand: t.hour * 3600 + t.minute * 60 + t.second
\* + t.microsecond/1000000 of the datetime.time that to_time() returns
SecondsOf(ms) == FAdd(FInt(ms \div 1000), FRatio((ms % 1000) * 1000, 1000000))

\* lines 41-42; the timelines of the model have start <= end
TargetDuration(timeline) == FAbsDiff(SecondsOf(timeline.end), SecondsOf(timeline.start))

\* line 50: float(result.stdout.strip()) of the decimal ms / 1000
CurrentDuration(stdout) == FRatio(stdout.ms, 1000)

\* a variant of the clipping whose lower bound is never applied
ClipFactor_UpperOnly(f) ==
    IF FLess(max_stretch_factor, f) THEN max_stretch_factor ELSE f

\* lines 63-68
ClipFactor(f) ==
    IF FLess(max_stretch_factor, f) THEN max_stretch_factor
    ELSE IF FLess(f, min_stretch_factor) THEN min_stretch_factor
    ELSE f

\* line 71
BeyondFineThreshold(f) == FLess(fine_threshold, FAbsDiff(f, FInt(1)))

\* a variant of the decomposition that always takes one 0.5 stage first
AtempoChain_AlwaysHalve(temp_stretch) ==
    <<FRatio(1, 2), FDiv(temp_stretch, FRatio(1, 2))>>

\* a variant of the decomposition whose loop extracts 2.0 stages only
RECURSIVE AtempoChain_UpperOnly(_)
AtempoChain_UpperOnly(temp_stretch) ==
    IF FLess(FInt(2), temp_stretch)
    THEN <<FInt(2)>> \o AtempoChain_UpperOnly(FDiv(temp_stretch, FInt(2)))
    ELSE <<temp_stretch>>

\* lines 73-81
RECURSIVE AtempoChain(_)
AtempoChain(temp_stretch) ==
    IF FLess(FInt(2), temp_stretch) \/ FLess(temp_stretch, FRatio(1, 2))
    THEN LET factor == IF FLess(FInt(2), temp_stretch) THEN FInt(2) ELSE FRatio(1, 2)
         IN  <<factor>> \o AtempoChain(FDiv(temp_stretch, factor))
    ELSE <<temp_stretch>>

\* lines 34-53: the order of the statements of the try block, a variant that
\* probes before it parses
NextStep_ProbeFirst(step) ==
    CASE step = "start" -> "probe"
      [] step = "probe" -> "parse"
      [] step = "parse" -> "compute"
      [] step = "compute" -> "clip"
      [] step = "clip" -> "decide"

\* lines 34-71: the order of the statements
NextStep(step) ==
    CASE step = "start" -> "parse"
      [] step = "parse" -> "probe"
      [] step = "probe" -> "compute"
      [] step = "compute" -> "clip"
      [] step = "clip" -> "decide"

\* a variant of the except clause that names one class
Caught_ValueErrorOnly(exc) == exc = "ValueError"

\* line 101: except Exception; every exception the try block raises is one
Caught(exc) == exc \in {"Exception", "IndexError", "ValueError", "ZeroDivisionError", "OSError"}

\* return False, from `step`
ReturnFalse(step) ==
    /\ result' = "False"
    /\ failed_at' = step
    /\ r_pc' = "done"

\* `exc` raised in the try block by `step`: lines 101-103, or it leaves the function
Except(step, exc) ==
    IF Caught(exc)
    THEN ReturnFalse(step)
    ELSE /\ r_pc' = "raised"
         /\ failed_at' = step
         /\ UNCHANGED result

\* a variant of the existence checks that looks at the audio only
MissingInput_AudioOnly == IF ~audio_exists THEN "audio_missing" ELSE "none"

\* lines 27-32
MissingInput ==
    IF ~audio_exists THEN "audio_missing"
    ELSE IF ~srt_exists THEN "srt_missing"
    ELSE "none"

\* lines 26-32
CheckFiles ==
    /\ r_pc = "start"
    /\ IF MissingInput # "none"
       THEN ReturnFalse(MissingInput)
       ELSE r_pc' = NextStep("start") /\ UNCHANGED <<result, failed_at>>
    /\ UNCHANGED <<audio_exists, srt_exists, subs, probe_stdout, target_duration,
                   current_duration, stretch_factor, atempo_factors, calls, path>>
    /\ UNCHANGED <<audio_path, output_path, now, ffmpeg_outcome, files_written, steps>>
    /\ UNCHANGED <<mergeVars, storeVars, pollVars>>

\* lines 36-38: what reading the timeline raises
ParseRaises(timeline) ==
    CASE timeline.kind = "error" -> "Exception"
      [] timeline.kind = "empty" -> "IndexError"
      [] OTHER -> "none"

\* lines 36-42; pysrt.open raising and subs[0] on an empty list both end in
\* the except clause of line 101
ParseTimeline ==
    /\ r_pc = "parse"
    /\ steps' = Append(steps, "PARSE")
    /\ IF ParseRaises(subs) # "none"
       THEN Except("parse", ParseRaises(subs)) /\ UNCHANGED target_duration
       ELSE /\ target_duration' = TargetDuration(subs)
            /\ r_pc' = NextStep("parse")
            /\ UNCHANGED <<result, failed_at>>
    /\ UNCHANGED <<audio_exists, srt_exists, subs, probe_stdout, current_duration,
                   stretch_factor, atempo_factors, calls, path>>
    /\ UNCHANGED <<audio_path, output_path, now, ffmpeg_outcome, files_written>>
    /\ UNCHANGED <<mergeVars, storeVars, pollVars>>

\* a variant of float() that reads what is not a number as zero
ProbeRaises_Lenient(stdout) ==
    IF stdout.kind = "oserror" THEN "OSError" ELSE "none"

\* lines 45-50: subprocess.run raises OSError when ffprobe cannot be
\* launched; float() raises ValueError on what is not a number (a failed
\* ffprobe prints nothing on stdout)
ProbeRaises(stdout) ==
    CASE stdout.kind = "oserror" -> "OSError"
      [] stdout.kind = "garbage" -> "ValueError"
      [] OTHER -> "none"

\* lines 45-50
Probe ==
    /\ r_pc = "probe"
    /\ steps' = Append(steps, "PROBE")
    /\ calls' = Append(calls, [tool |-> "ffprobe", mode |-> "duration", chain |-> <<>>,
                               dest |-> <<>>,
                               outcome |-> IF probe_stdout.kind = "number" THEN "ok"
                                           ELSE IF probe_stdout.kind = "oserror" THEN "oserror"
                                           ELSE "nonzero"])
    /\ IF ProbeRaises(probe_stdout) # "none"
       THEN Except("probe", ProbeRaises(probe_stdout)) /\ UNCHANGED current_duration
       ELSE /\ current_duration' = CurrentDuration(probe_stdout)
            /\ r_pc' = NextStep("probe")
            /\ UNCHANGED <<result, failed_at>>
    /\ UNCHANGED <<audio_exists, srt_exists, subs, probe_stdout, target_duration,
                   stretch_factor, atempo_factors, path>>
    /\ UNCHANGED <<audio_path, output_path, now, ffmpeg_outcome, files_written>>
    /\ UNCHANGED <<mergeVars, storeVars, pollVars>>

\* line 53; a zero target_duration raises ZeroDivisionError
Compute ==
    /\ r_pc = "compute"
    /\ steps' = Append(steps, "COMPUTE")
    /\ IF target_duration = FZero
       THEN Except("compute", "ZeroDivisionError") /\ UNCHANGED stretch_factor
       ELSE /\ stretch_factor' = FDiv(current_duration, target_duration)
            /\ r_pc' = NextStep("compute")
            /\ UNCHANGED <<result, failed_at>>
    /\ UNCHANGED <<audio_exists, srt_exists, subs, probe_stdout, target_duration,
                   current_duration, atempo_factors, calls, path>>
    /\ UNCHANGED <<audio_path, output_path, now, ffmpeg_outcome, files_written>>
    /\ UNCHANGED <<mergeVars, storeVars, pollVars>>

\* lines 57-68
Clip ==
    /\ r_pc = "clip"
    /\ stretch_factor' = ClipFactor(stretch_factor)
    /\ r_pc' = NextStep("clip")
    /\ UNCHANGED <<audio_exists, srt_exists, subs, probe_stdout, target_duration,
                   current_duration, atempo_factors, calls, result, path, failed_at>>
    /\ UNCHANGED <<audio_path, output_path, now, ffmpeg_outcome, files_written, steps>>
    /\ UNCHANGED <<mergeVars, storeVars, pollVars>>

\* the index of the last `c` in `p`, 0 when there is none
RECURSIVE LastIndexOf(_, _)
LastIndexOf(p, c) ==
    IF Len(p) = 0 THEN 0
    ELSE IF p[Len(p)] = c THEN Len(p)
    ELSE LastIndexOf(SubSeq(p, 1, Len(p) - 1), c)

\* line 115: os.path.splitext; the extension starts at the last dot of the
\* last component, unless only dots precede it in that component
splitext(p) ==
    LET sepIndex == LastIndexOf(p, "/")
        dotIndex == LastIndexOf(p, ".")
    IN  IF /\ dotIndex > sepIndex
           /\ \E i \in (sepIndex + 1)..(dotIndex - 1) : p[i] # "."
        THEN <<SubSeq(p, 1, dotIndex - 1), SubSeq(p, dotIndex, Len(p))>>
        ELSE <<p, <<>>>>

\* line 116: strftime("%Y%m%d_%H%M%S") keeps whole seconds
Timestamp(clock) == IntToStr(clock \div 1000)

\* lines 105-117
add_timestamp_to_filename(filepath, clock) ==
    LET base == splitext(filepath)[1]
        ext == splitext(filepath)[2]
    IN  base \o <<"_">> \o Timestamp(clock) \o ext

\* lines 91-93 and 99: subprocess.run without check=True; the file is there
\* when ffmpeg ran and succeeded, and only a failed launch raises
RunFfmpeg(mode, chain, dest, step) ==
    /\ calls' = Append(calls, [tool |-> "ffmpeg", mode |-> mode, chain |-> chain,
                               dest |-> dest, outcome |-> ffmpeg_outcome])
    /\ files_written' = IF ffmpeg_outcome = "ok" THEN files_written \cup {dest}
                        ELSE files_written
    /\ IF ffmpeg_outcome = "oserror"
       THEN Except(step, "OSError")
       ELSE /\ result' = "True"
            /\ r_pc' = "done"
            /\ UNCHANGED failed_at

\* lines 71-95
Stretch ==
    /\ r_pc = "decide"
    /\ BeyondFineThreshold(stretch_factor)
    /\ atempo_factors' = AtempoChain(stretch_factor)
    /\ steps' = Append(steps, "STRETCH")
    /\ path' = "stretch"
    /\ RunFfmpeg("atempo", atempo_factors',
                 add_timestamp_to_filename(output_path, now), "stretch")
    /\ UNCHANGED <<audio_exists, srt_exists, subs, probe_stdout, target_duration,
                   current_duration, stretch_factor>>
    /\ UNCHANGED <<audio_path, output_path, now, ffmpeg_outcome>>
    /\ UNCHANGED <<mergeVars, storeVars, pollVars>>

\* lines 71 and 96-100
Copy ==
    /\ r_pc = "decide"
    /\ ~BeyondFineThreshold(stretch_factor)
    /\ steps' = Append(steps, "COPY")
    /\ path' = "copy"
    /\ RunFfmpeg("copy", <<>>, output_path, "copy")
    /\ UNCHANGED <<audio_exists, srt_exists, subs, probe_stdout, target_duration,
                   current_duration, stretch_factor, atempo_factors>>
    /\ UNCHANGED <<audio_path, output_path, now, ffmpeg_outcome>>
    /\ UNCHANGED <<mergeVars, storeVars, pollVars>>

----------------------------------------------------------------------------
(* The inputs of the reconciler *)

\* audio durations: the multiples of 100 ms up to MaxAudioSteps of them
MaxAudioSteps == 112

AudioDurations == { i * 100 : i \in 0..MaxAudioSteps }

OkTimeline(s, e) == [kind |-> "ok", start |-> s, end |-> e]

\* 10 s, 2.5 s and an empty span
Timelines_Ok == { OkTimeline(0, 10000), OkTimeline(1500, 4000), OkTimeline(2000, 2000) }

DefaultTimeline == OkTimeline(0, 10000)

DefaultStdout == [kind |-> "number", ms |-> 10000]

\* "a.w", "o.w" and "o_0.w", the name the stretch path gives "o.w" at second 0
AudioPaths == { <<"a", ".", "w">>, <<"o", ".", "w">>, <<"o", "_", "0", ".", "w">> }

\* "o.w", "a.w" and "d.x/o", a name without extension in a dotted directory
OutputPaths == { <<"o", ".", "w">>, <<"a", ".", "w">>, <<"d", ".", "x", "/", "o">> }

DefaultAudioPath == <<"a", ".", "w">>

DefaultOutputPath == <<"o", ".", "w">>

\* clock readings in two different seconds
ClockTimes == { 0, 1999 }

\* the runs in which paths, clock and ffmpeg vary: one that copies and one
\* that stretches
VariedStdouts == { [kind |-> "number", ms |-> a] : a \in {10000, 11000} }

\* the files, the timeline, ffprobe's output, the paths, the clock and
\* ffmpeg's outcome; a missing file makes the tool that reads it fail, and
\* what a failing step never reads is left at its default
InitRecon ==
    /\ MergeIdle
    /\ StoreIdle
    /\ PollIdle
    /\ audio_exists \in BOOLEAN
    /\ srt_exists \in BOOLEAN
    /\ subs \in Timelines_Ok \cup { [kind |-> k, start |-> 0, end |-> 0] : k \in {"error", "empty"} }
    /\ probe_stdout \in { [kind |-> "number", ms |-> a] : a \in AudioDurations }
                           \cup { [kind |-> k, ms |-> 0] : k \in {"garbage", "oserror"} }
    /\ audio_path \in AudioPaths
    /\ output_path \in OutputPaths
    /\ now \in ClockTimes
    /\ ffmpeg_outcome \in {"ok", "nonzero", "oserror"}
    /\ IF ~srt_exists THEN subs.kind = "error"
       ELSE IF ~audio_exists THEN subs = DefaultTimeline
       ELSE TRUE
    /\ IF ~audio_exists THEN probe_stdout.kind = "garbage"
       ELSE IF ~srt_exists \/ subs.kind # "ok" THEN probe_stdout = DefaultStdout
       ELSE TRUE
    /\ (\/ audio_path # DefaultAudioPath
        \/ output_path # DefaultOutputPath
        \/ now # 0
        \/ ffmpeg_outcome # "ok") =>
          (/\ audio_exists /\ srt_exists
           /\ subs = DefaultTimeline
           /\ probe_stdout \in VariedStdouts)
    /\ target_duration = FZero
    /\ current_duration = FZero
    /\ stretch_factor = FZero
    /\ atempo_factors = <<>>
    /\ calls = <<>>
    /\ result = "none"
    /\ r_pc = "start"
    /\ path = "none"
    /\ failed_at = "none"
    /\ files_written = {}
    /\ steps = <<>>

NextRecon ==
    \/ CheckFiles
    \/ ParseTimeline
    \/ Probe
    \/ Compute
    \/ Clip
    \/ Stretch
    \/ Copy

SpecRecon == InitRecon /\ [][NextRecon]_vars

----------------------------------------------------------------------------
(* Properties of the reconciler *)

FMax(a, b) == IF FLess(a, b) THEN b ELSE a

FMin(a, b) == IF FLess(b, a) THEN b ELSE a

\* the audio duration and the target duration of the run, in milliseconds
AudioMs == probe_stdout.ms

TargetMs == subs.end - subs.start

\* C9 (stretch clipping): for every audio duration >= 0 and target duration
\* > 0, the factor the run works with after clipping equals
\* max(0.9, min(1.1, D_audio / D_target)), and the run is not rejected: when
\* ffmpeg can be launched it returns True, whether or not the ratio was
\* inside the range.
C9_StretchClipping ==
    /\ (r_pc = "decide" \/ path # "none") =>
          LET f == FDiv(current_duration, target_duration)
              upper == FMin(max_stretch_factor, f)
          IN  stretch_factor = FMax(min_stretch_factor, upper)
    /\ (/\ r_pc = "done"
        /\ audio_exists /\ srt_exists
        /\ subs.kind = "ok" /\ TargetMs > 0
        /\ probe_stdout.kind = "number"
        /\ ffmpeg_outcome # "oserror") =>
          (result = "True" /\ path # "none" /\ failed_at = "none")

\* a run whose ratio is below 0.9, clipped to 0.9 and returned True
C9_Witness ==
    /\ r_pc = "done"
    /\ result = "True"
    /\ TargetMs > 0
    /\ 10 * AudioMs < 9 * TargetMs
    /\ stretch_factor = min_stretch_factor

\* C10 (no-op threshold): the run takes the COPY path exactly when
\* |clip(D_audio / D_target) - 1| <= 0.08, that is when
\* 0.92 <= D_audio / D_target <= 1.08, and the STRETCH path otherwise.
C10_NoOpThreshold ==
    path # "none" =>
        (path = "copy" <=> (92 * TargetMs <= 100 * AudioMs /\ 100 * AudioMs <= 108 * TargetMs))

\* the ffmpeg invocations of the run
FfmpegCalls == SelectSeq(calls, LAMBDA c : c.tool = "ffmpeg")

\* C11 (single stage): on every STRETCH path the chain given to the tempo
\* transform has exactly one stage, and that stage is the clipped factor.
C11_SingleStage ==
    path = "stretch" =>
        /\ atempo_factors = <<stretch_factor>>
        /\ Len(FfmpegCalls) = 1
        /\ FfmpegCalls[1].mode = "atempo"
        /\ FfmpegCalls[1].chain = <<stretch_factor>>
        /\ ~FLess(stretch_factor, min_stretch_factor)
        /\ ~FLess(max_stretch_factor, stretch_factor)

\* D_audio = 11 s against D_target = 10 s: the chain is [1.1]
C11_Witness ==
    /\ path = "stretch"
    /\ AudioMs = 11000
    /\ TargetMs = 10000
    /\ result = "True"
    /\ FfmpegCalls[1].chain = <<FRatio(11, 10)>>

\* C12 (output at the caller's path): whenever the call has returned True, on
\* the COPY path and on the STRETCH path alike, the audio has been written
\* to the output path the caller supplied.
C12_OutputAtCallerPath ==
    (r_pc = "done" /\ result = "True") => output_path \in files_written

\* C13 (tool failure is reported): the call never returns True after a
\* probe, tempo-transform or stream-copy invocation that failed.
C13_ToolFailureReported ==
    (r_pc = "done" /\ result = "True") =>
        \A i \in 1..Len(calls) : calls[i].outcome = "ok"

\* C14 (missing files): when the audio file or the timed-text file does not
\* exist, the call returns False and has neither parsed, nor invoked the
\* probe, copy or tempo tool, nor written a file.
C14_MissingFile ==
    (~audio_exists \/ ~srt_exists) =>
        /\ steps = <<>>
        /\ calls = <<>>
        /\ files_written = {}
        /\ r_pc \in {"start", "done"}
        /\ r_pc = "done" => result = "False"

\* the timed-text file is missing, the audio is there
C14_Witness ==
    /\ audio_exists
    /\ ~srt_exists
    /\ r_pc = "done"
    /\ result = "False"
    /\ failed_at = "srt_missing"

\* C15 (the source is never overwritten): for every audio_path and
\* output_path, equal ones included, the destination of every write the
\* call issues differs from the source audio path.
C15_SourceNotDestination ==
    \A i \in 1..Len(FfmpegCalls) : FfmpegCalls[i].dest # audio_path

\* the statements of the call, in the order it reaches them
StepRank(step) ==
    CASE step = "start" -> 0
      [] step = "parse" -> 1
      [] step = "probe" -> 2
      [] step = "compute" -> 3
      [] step = "clip" -> 4
      [] step = "decide" -> 5
      [] step = "done" -> 6
      [] OTHER -> -1

\* C16 (no exception escapes): whatever the existence checks, the timeline,
\* the probe, the division and the tool launches do, no exception ever
\* leaves the call: every step goes on to a later statement or returns, and
\* the call has returned exactly when its value is True or False.
C16_NoExceptionEscapes ==
    /\ [](r_pc # "raised")
    /\ [](r_pc = "done" <=> result \in {"True", "False"})
    /\ [][StepRank(r_pc') > StepRank(r_pc)]_vars

\* each exception of the try block, caught and turned into False
C16_WitnessZeroTarget ==
    /\ r_pc = "done"
    /\ result = "False"
    /\ failed_at = "compute"
    /\ TargetMs = 0

C16_WitnessLaunch ==
    /\ r_pc = "done"
    /\ result = "False"
    /\ failed_at \in {"copy", "stretch"}
    /\ ffmpeg_outcome = "oserror"

C16_Witness ==
    /\ r_pc = "done"
    /\ result = "False"
    /\ failed_at = "parse"
    /\ subs.kind = "empty"

\* the position of the first `step` in the run, 0 when it has not run
FirstOf(step) ==
    IF \E i \in 1..Len(steps) : steps[i] = step
    THEN CHOOSE i \in 1..Len(steps) : steps[i] = step /\ \A j \in 1..(i - 1) : steps[j] # step
    ELSE 0

\* C17 as stated (step order): the audio is probed before the timeline is
\* parsed, the factor is computed after both, and a timeline-parse failure
\* is only observed after the probe has run.
C17_ProbeBeforeParse ==
    /\ FirstOf("PARSE") > 0 => (0 < FirstOf("PROBE") /\ FirstOf("PROBE") < FirstOf("PARSE"))
    /\ FirstOf("COMPUTE") > 0 => (FirstOf("PROBE") > 0 /\ FirstOf("PARSE") > 0)
    /\ failed_at = "parse" => FirstOf("PROBE") > 0

\* C17 amended (step order): the timeline is parsed before the audio is
\* probed, the factor is computed after both, and a probe failure is only
\* observed after the timeline has been parsed.
C17_ParseBeforeProbe ==
    /\ FirstOf("PROBE") > 0 => (0 < FirstOf("PARSE") /\ FirstOf("PARSE") < FirstOf("PROBE"))
    /\ FirstOf("COMPUTE") > 0 =>
          (FirstOf("PARSE") < FirstOf("PROBE") /\ FirstOf("PROBE") < FirstOf("COMPUTE"))
    /\ failed_at = "probe" => FirstOf("PARSE") > 0
    /\ failed_at = "parse" => (FirstOf("PROBE") = 0 /\ calls = <<>>)

\* a probe failure, seen after the timeline was parsed
C17_Witness ==
    /\ r_pc = "done"
    /\ failed_at = "probe"
    /\ steps = <<"PARSE", "PROBE">>
    /\ target_duration # FZero

\* the inputs that make a step of the try block fail
FailingInput ==
    \/ subs.kind # "ok"
    \/ probe_stdout.kind # "number"
    \/ TargetMs = 0

\* C18 (failure goes directly to FAILED): when the timeline cannot be parsed
\* or has no entry, the probe output is not a number, or the target duration
\* is zero, the failing step is the last step, the call returns False, and
\* neither the COPY nor the STRETCH invocation is issued.
C18_FailureIsDirect ==
    (audio_exists /\ srt_exists /\ FailingInput) =>
        /\ FfmpegCalls = <<>>
        /\ path = "none"
        /\ files_written = {}
        /\ r_pc \notin {"clip", "decide", "raised"}
        /\ r_pc = "done" => (result = "False" /\ failed_at \in {"parse", "probe", "compute"})
        /\ failed_at # "none" => r_pc = "done"

\* ffprobe printed something that is not a number
C18_Witness ==
    /\ r_pc = "done"
    /\ result = "False"
    /\ failed_at = "probe"
    /\ probe_stdout.kind = "garbage"
    /\ subs.kind = "ok"
    /\ FfmpegCalls = <<>>

----------------------------------------------------------------------------
(* The merge/flush decision of merge_subtitles *)

\* the text has a last word, and it ends in '.', '?' or '!'
EndsInTerminal(text) == Len(text) > 0 /\ text[Len(text)].term

\* `cur` with `subtitle` merged into it
Merged(cur, subtitle) ==
    [index |-> cur.index,
     start_time |-> cur.start_time,
     end_time |-> subtitle.end_time,
     text |-> cur.text \o subtitle.text]

\* what the split check makes of an accumulator
Pieces(cur) == IF WordCount(cur.text) > max_words THEN SplitChunks(cur) ELSE <<cur>>

\* C19 (merge/flush decision): for each entry `next` after the first, the
\* accumulator is flushed and `next` becomes the accumulator if and only if
\* curr_words + next_words > max_words, current.text ends in '.', '?' or '!'
\* and curr_words >= min_words; in every other case `next` is merged into
\* the accumulator, also beyond max_words, and the split check runs on the
\* result.
C19_MergeFlushDecision ==
    [][(pc = "loop" /\ pos < Len(subtitles) /\ current # None) =>
          LET next == subtitles[pos + 1]
              curr_words == WordCount(current.text)
              next_words == WordCount(next.text)
              flush == /\ curr_words + next_words > max_words
                       /\ EndsInTerminal(current.text)
                       /\ curr_words >= min_words
          IN  /\ pos' = pos + 1
              /\ pc' = "loop"
              /\ IF flush
                 THEN Append(merged', current') = Append(merged, current) \o Pieces(next)
                 ELSE Append(merged', current') = merged \o Pieces(Merged(current, next))]_vars

\* C20 (merge effect): when `next` is merged into the accumulator and the
\* merged word count does not exceed max_words, the accumulator's text
\* becomes its text followed by next's, its end_time becomes next.end_time,
\* its start_time is unchanged, and it spans both original time ranges.
C20_MergeEffect ==
    [][(/\ pc = "loop" /\ pos < Len(subtitles) /\ current # None
        /\ pos' = pos + 1
        /\ branch' \in {"merge", "absorb"}
        /\ WordCount(current.text) + WordCount(subtitles[pos + 1].text) <= max_words) =>
          LET next == subtitles[pos + 1]
          IN  /\ current'.text = current.text \o next.text
              /\ current'.end_time = next.end_time
              /\ current'.start_time = current.start_time
              /\ current'.start_time <= next.start_time
              /\ current'.end_time >= current.end_time
              /\ merged' = merged]_vars

\* "a" followed by "b." with max_words = 2 has become the one entry "a b."
C20_Witness ==
    /\ pc = "done"
    /\ max_words = 2
    /\ Len(subtitles) = 2
    /\ WordCount(subtitles[1].text) = 1
    /\ ~EndsInTerminal(subtitles[1].text)
    /\ WordCount(subtitles[2].text) = 1
    /\ EndsInTerminal(subtitles[2].text)
    /\ merged = <<[index |-> subtitles[1].index,
                   start_time |-> subtitles[1].start_time,
                   end_time |-> subtitles[2].end_time,
                   text |-> subtitles[1].text \o subtitles[2].text]>>

\* C21 (final flush): after the loop the accumulator is always appended,
\* whatever its word count and its last character; a single entry of at most
\* max_words words is returned as exactly that entry, and an empty input
\* gives an empty output.
C21_FinalFlush ==
    pc = "done" =>
        /\ Len(subtitles) = 0 => merged = <<>>
        /\ Len(subtitles) > 0 =>
              /\ merged # <<>>
              /\ merged[Len(merged)] = current
              /\ origin[Len(origin)] = "final"
        /\ (Len(subtitles) = 1 /\ WordCount(subtitles[1].text) <= max_words) =>
              merged = subtitles

\* one entry of one word without terminal punctuation, under min_words = 2
C21_Witness ==
    /\ pc = "done"
    /\ min_words = 2
    /\ Len(subtitles) = 1
    /\ WordCount(subtitles[1].text) = 1
    /\ ~EndsInTerminal(subtitles[1].text)
    /\ merged = subtitles

\* the ids of the words of a text
WordIds(text) == { text[k].id : k \in 1..Len(text) }

\* C22 (split of an oversized solo entry): an input entry that has more than
\* max_words words by itself is split into chunks of at most max_words
\* words, also when it is the only entry or the first entry of the input:
\* every output entry that holds one of its words has at most max_words words.
C22_OversizedSoloSplit ==
    pc = "done" =>
        \A i \in 1..Len(subtitles) :
            WordCount(subtitles[i].text) > max_words =>
                \A j \in 1..Len(merged) :
                    WordIds(merged[j].text) \cap WordIds(subtitles[i].text) # {} =>
                        WordCount(merged[j].text) <= max_words

\* C23 (chunking rule): when the split fires on an accumulator of k >
\* max_words words, it makes m = ceil(k / max_words) chunks in word order,
\* the first m - 1 of exactly max_words words and the last of
\* k - (m - 1) * max_words words, between 1 and max_words; the i-th chunk
\* has the i-th sub-interval, in chronological order; the first m - 1
\* chunks end the output and the last is the accumulator.
C23_ChunkingRule ==
    last_split # <<>> =>
        LET sp == last_split[1]
            k == WordCount(sp.text)
            m == Len(sp.chunks)
            n == Len(merged)
        IN  /\ k > max_words
            /\ (m - 1) * max_words < k /\ k <= m * max_words
            /\ \A i \in 1..(m - 1) : WordCount(sp.chunks[i].text) = max_words
            /\ WordCount(sp.chunks[m].text) = k - (m - 1) * max_words
            /\ WordCount(sp.chunks[m].text) \in 1..max_words
            /\ WordsOf(sp.chunks) = sp.text
            /\ sp.chunks[1].start_time = sp.start_time
            /\ \A i \in 1..m : sp.chunks[i].start_time <= sp.chunks[i].end_time
            /\ \A i \in 1..(m - 1) :
                  /\ sp.chunks[i].end_time = sp.chunks[i + 1].start_time
                  /\ sp.chunks[i].start_time <= sp.chunks[i + 1].start_time
            /\ sp.chunks[m].end_time <= sp.end_time
            /\ n >= m - 1
            /\ SubSeq(merged, n - m + 2, n) = SubSeq(sp.chunks, 1, m - 1)
            /\ current = sp.chunks[m]

\* four words over two time units with max_words = 2: two chunks of two
\* words, each with half the span
C23_Witness ==
    /\ last_split # <<>>
    /\ max_words = 2
    /\ WordCount(last_split[1].text) = 4
    /\ last_split[1].end_time - last_split[1].start_time = 2
    /\ Len(last_split[1].chunks) = 2
    /\ \A i \in 1..2 :
          /\ WordCount(last_split[1].chunks[i].text) = 2
          /\ last_split[1].chunks[i].end_time - last_split[1].chunks[i].start_time = 1

\* C24 (no backtracking): the output list only grows at its end, and an
\* entry, once appended, is never modified, removed or moved by a later step
\* (the list holds no dict that is still the accumulator or that it holds
\* twice), so the output at any step is a prefix of the final output.
C24_NoBacktracking ==
    /\ [][/\ Len(merged') >= Len(merged)
          /\ SubSeq(merged', 1, Len(merged)) = merged
          /\ SubSeq(refs', 1, Len(refs)) = refs]_vars
    /\ [](/\ Len(refs) = Len(merged)
          /\ \A i, j \in 1..Len(refs) : refs[i] = refs[j] => i = j
          /\ pc = "loop" => \A i \in 1..Len(refs) : refs[i] # cur_ref)

\* a returned run that flushed its first entry and went on to split
C24_Witness ==
    /\ pc = "done"
    /\ Len(merged) >= 3
    /\ origin[1] = "flush"
    /\ \E i \in 2..Len(origin) : origin[i] = "split"
    /\ merged[1] = subtitles[1]

\* C28 (parse-then-reflow never raises): merge_subtitles returns normally
\* for every sequence load_srt can return, entries with empty text included,
\* and every 1 <= min_words <= max_words.
C28_NeverRaises == pc # "raised"

\* C29 (accumulator bound): at the end of every iteration of the main loop
\* but the first, the accumulator holds at most max_words words.
C29_AccumulatorBound ==
    (pc \in {"loop", "done"} /\ pos >= 2) => WordCount(current.text) <= max_words

\* an entry that became the accumulator by a flush and was split at once
C29_Witness ==
    /\ pc = "loop"
    /\ pos >= 2
    /\ branch = "flush"
    /\ last_split # <<>>
    /\ WordCount(current.text) <= max_words

----------------------------------------------------------------------------
(* The decomposition loop of lines 72-81 on its own, for factors that the   *)
(* clipping of lines 63-68 would never let through.                         *)

\* numerators of the factors
MaxNumerator == 30

\* denominators of the factors: 1/100 needs six 0.5 stages
Denominators == {1, 2, 3, 10, 100}

\* positive finite floats from 0.01 to 30, with 0.5, 1.0 and 2.0 among them
Factors == { FRatio(n, d) : n \in 1..MaxNumerator, d \in Denominators }

InitChain ==
    /\ MergeIdle
    /\ StoreIdle
    /\ PollIdle
    /\ audio_exists = FALSE
    /\ srt_exists = FALSE
    /\ subs = [kind |-> "error", start |-> 0, end |-> 0]
    /\ probe_stdout = [kind |-> "garbage", ms |-> 0]
    /\ target_duration = FZero
    /\ current_duration = FZero
    /\ stretch_factor \in Factors
    /\ atempo_factors = <<>>
    /\ calls = <<>>
    /\ result = "none"
    /\ r_pc = "decompose"
    /\ path = "none"
    /\ failed_at = "none"
    /\ audio_path = <<>>
    /\ output_path = <<>>
    /\ now = 0
    /\ ffmpeg_outcome = "ok"
    /\ files_written = {}
    /\ steps = <<>>

\* lines 72-81: temp_stretch = stretch_factor, then the while loop and the
\* append of the remainder
Decompose ==
    /\ r_pc = "decompose"
    /\ atempo_factors' = AtempoChain(stretch_factor)
    /\ r_pc' = "decomposed"
    /\ UNCHANGED <<audio_exists, srt_exists, subs, probe_stdout, target_duration,
                   current_duration, stretch_factor, calls, result, path, failed_at>>
    /\ UNCHANGED <<audio_path, output_path, now, ffmpeg_outcome, files_written, steps>>
    /\ UNCHANGED <<mergeVars, storeVars, pollVars>>

NextChain == Decompose

SpecChain == InitChain /\ [][NextChain]_vars

\* f * 2^e, exact for a float f whose result stays in range
TimesPow2(f, e) == [m |-> f.m, x |-> f.x + e]

\* floor(log2(f)) of a positive float: its mantissa has 53 digits
Log2Floor(f) == f.x + 52

\* the number of stages of `chain` equal to `f`
CountOf(chain, f) == Cardinality({ k \in 1..Len(chain) : chain[k] = f })

\* C25 (general stage decomposition): for every positive factor the loop ends,
\* after at most |floor(log2(factor))| rounds, with a chain in which every
\* stage lies in [0.5, 2.0], every stage but the last is exactly 2.0 or
\* exactly 0.5, and the product of the stages is the factor.
C25_GeneralDecomposition ==
    r_pc = "decomposed" =>
        LET chain == atempo_factors
            n == Len(chain)
            two == FInt(2)
            half == FRatio(1, 2)
        IN  /\ n >= 1
            /\ n - 1 <= Abs(Log2Floor(stretch_factor))
            /\ \A k \in 1..n : ~FLess(chain[k], half) /\ ~FLess(two, chain[k])
            /\ \A k \in 1..(n - 1) : chain[k] \in {two, half}
            /\ TimesPow2(chain[n], CountOf(SubSeq(chain, 1, n - 1), two)
                                   - CountOf(SubSeq(chain, 1, n - 1), half))
                 = stretch_factor

\* a factor below 0.5 that took several 0.5 stages, none of them 2.0
C25_Witness ==
    /\ r_pc = "decomposed"
    /\ FLess(stretch_factor, FRatio(1, 2))
    /\ Len(atempo_factors) >= 3
    /\ \A k \in 1..(Len(atempo_factors) - 1) : atempo_factors[k] = FRatio(1, 2)

----------------------------------------------------------------------------
(* Several invocations of adjust_audio_length_ffmpeg with the same          *)
(* arguments, one after the other, each reading the clock when it reaches   *)
(* line 87.                                                                 *)

\* the invocations a caller makes
MaxInvocations == 2

\* the time between the end of one invocation and the start of the next, in
\* milliseconds
ClockAdvances == {0, 400, 1000}

\* the invocations that have run ffmpeg
Launched == Len(SelectSeq(calls, LAMBDA c : c.tool = "ffmpeg"))

\* both files are there, the timeline spans 10 s, and the audio lasts 10 s (a
\* copy) or 11 s (a stretch)
InitTwoCalls ==
    /\ MergeIdle
    /\ StoreIdle
    /\ PollIdle
    /\ audio_exists = TRUE
    /\ srt_exists = TRUE
    /\ subs = DefaultTimeline
    /\ probe_stdout \in VariedStdouts
    /\ audio_path = DefaultAudioPath
    /\ output_path \in OutputPaths
    /\ now \in ClockTimes
    /\ ffmpeg_outcome = "ok"
    /\ target_duration = FZero
    /\ current_duration = FZero
    /\ stretch_factor = FZero
    /\ atempo_factors = <<>>
    /\ calls = <<>>
    /\ result = "none"
    /\ r_pc = "start"
    /\ path = "none"
    /\ failed_at = "none"
    /\ files_written = {}
    /\ steps = <<>>

\* the caller invokes the function again with the same arguments: the locals
\* are fresh, the files written so far stay, and the clock has moved on
InvokeAgain ==
    /\ r_pc = "done"
    /\ Launched < MaxInvocations
    /\ \E d \in ClockAdvances : now' = now + d
    /\ target_duration' = FZero
    /\ current_duration' = FZero
    /\ stretch_factor' = FZero
    /\ atempo_factors' = <<>>
    /\ result' = "none"
    /\ r_pc' = "start"
    /\ path' = "none"
    /\ failed_at' = "none"
    /\ steps' = <<>>
    /\ UNCHANGED <<audio_exists, srt_exists, subs, probe_stdout, calls, audio_path,
                   output_path, ffmpeg_outcome, files_written>>
    /\ UNCHANGED <<mergeVars, storeVars, pollVars>>

NextTwoCalls ==
    \/ CheckFiles
    \/ ParseTimeline
    \/ Probe
    \/ Compute
    \/ Clip
    \/ Stretch
    \/ Copy
    \/ InvokeAgain

SpecTwoCalls == InitTwoCalls /\ [][NextTwoCalls]_vars

\* C26 (output-path collision on the stretch path): two invocations that both
\* take the STRETCH path with the same output path write to two different
\* files, whenever they run.
C26_DistinctFiles ==
    \A i, j \in 1..Len(FfmpegCalls) :
        (i < j /\ FfmpegCalls[i].mode = "atempo" /\ FfmpegCalls[j].mode = "atempo")
            => FfmpegCalls[i].dest # FfmpegCalls[j].dest

----------------------------------------------------------------------------
(* lipsync.py: create_lip_sync_video from the submission on, and poll_job.  *)
(* A JSON object is the function from its keys to their values; a GET       *)
(* meets no response at all (requests raises), a response whose body is not *)
(* JSON, or a response with a JSON object.                                   *)

\* the GETs one job is given
MaxPolls == 3

JobIds == {"j1", "j2"}

Statuses == {"COMPLETED", "FAILED", "REJECTED", "CANCELLED", "PENDING", "PROCESSING"}

Urls == {"u1"}

Keys == {"status", "outputUrl"}

JsonObject(keys, s, u) == [k \in keys |-> IF k = "status" THEN s ELSE u]

JsonObjects == { JsonObject(keys, s, u) : keys \in SUBSET Keys, s \in Statuses, u \in Urls }

Responses ==
    { [kind |-> k, json |-> JsonObject({}, "PENDING", "u1")] : k \in {"noresponse", "nojson"} }
        \cup { [kind |-> "json", json |-> o] : o \in JsonObjects }

\* a variant of the list without CANCELLED
terminal_statuses_NoCancelled == {"COMPLETED", "FAILED", "REJECTED"}

\* line 115
terminal_statuses == {"COMPLETED", "FAILED", "REJECTED", "CANCELLED"}

\* lines 108-113: response.json() and result["status"] both succeed
Readable(r) == r.kind = "json" /\ "status" \in DOMAIN r.json

InitPoll ==
    /\ MergeIdle
    /\ StoreIdle
    /\ ReconIdle
    /\ l_pc = "submit"
    /\ job_id = "none"
    /\ status = "none"
    /\ responses = <<>>
    /\ sleeps = 0
    /\ generated_video_url = "none"
    /\ output_video_url = "none"
    /\ l_error = "none"

\* lines 38 and 92-98: the job id of a 201 response, an exception otherwise
Submit ==
    /\ l_pc = "submit"
    /\ \/ /\ job_id' \in JobIds
          /\ l_pc' = "poll"
          /\ UNCHANGED l_error
       \/ /\ l_error' = "Failed to submit generation"
          /\ l_pc' = "caught"
          /\ UNCHANGED job_id
    /\ UNCHANGED <<status, responses, sleeps, generated_video_url, output_video_url>>
    /\ UNCHANGED <<mergeVars, storeVars, reconVars>>

\* lines 106-128: one round of the while loop
Poll ==
    /\ l_pc = "poll"
    /\ Len(responses) < MaxPolls
    /\ \E r \in Responses :
        /\ responses' = Append(responses, r)
        /\ IF r.kind = "noresponse"
           THEN \* line 107 raises, outside the try
                /\ l_error' = "RequestException"
                /\ l_pc' = "caught"
                /\ UNCHANGED <<status, sleeps, generated_video_url>>
           ELSE IF ~Readable(r)
           THEN \* lines 111-113
                /\ l_error' = "Failed to poll job"
                /\ l_pc' = "caught"
                /\ UNCHANGED <<status, sleeps, generated_video_url>>
           ELSE /\ status' = r.json["status"]
                /\ IF status' \in terminal_statuses
                   THEN IF status' = "COMPLETED"
                        THEN IF "outputUrl" \in DOMAIN r.json
                             THEN \* lines 118-121
                                  /\ generated_video_url' = r.json["outputUrl"]
                                  /\ l_pc' = "poll_returned"
                                  /\ UNCHANGED <<sleeps, l_error>>
                             ELSE \* line 118 raises
                                  /\ l_error' = "KeyError"
                                  /\ l_pc' = "caught"
                                  /\ UNCHANGED <<sleeps, generated_video_url>>
                        ELSE \* lines 123-125
                             /\ l_error' = "Lip sync job failed"
                             /\ l_pc' = "caught"
                             /\ UNCHANGED <<sleeps, generated_video_url>>
                   ELSE \* lines 127-128
                        /\ sleeps' = sleeps + 1
                        /\ UNCHANGED <<l_pc, l_error, generated_video_url>>
    /\ UNCHANGED <<job_id, output_video_url>>
    /\ UNCHANGED <<mergeVars, storeVars, reconVars>>

\* lines 41 and 48
ReturnUrl ==
    /\ l_pc = "poll_returned"
    /\ output_video_url' = generated_video_url
    /\ l_pc' = "returned"
    /\ UNCHANGED <<job_id, status, responses, sleeps, generated_video_url, l_error>>
    /\ UNCHANGED <<mergeVars, storeVars, reconVars>>

\* lines 50-52
Reraise ==
    /\ l_pc = "caught"
    /\ l_pc' = "raised"
    /\ UNCHANGED <<job_id, status, responses, sleeps, generated_video_url,
                   output_video_url, l_error>>
    /\ UNCHANGED <<mergeVars, storeVars, reconVars>>

NextPoll ==
    \/ Submit
    \/ Poll
    \/ ReturnUrl
    \/ Reraise

SpecPoll == InitPoll /\ [][NextPoll]_vars

\* the response poll_job met last
LastResponse == responses[Len(responses)]

PollReturned == l_pc \in {"poll_returned", "returned"}

PollRaised == l_pc \in {"caught", "raised"}

\* C27 (lip-sync job polling): poll_job returns the generated video URL only
\* after a response reported COMPLETED; on FAILED, REJECTED or CANCELLED it
\* raises; on every other status it waits and polls again; so it ends only on
\* a terminal status or on a response that cannot be read, and what
\* create_lip_sync_video returns is what poll_job returned.
C27_JobPolling ==
    Len(responses) > 0 =>
        /\ PollReturned =>
              /\ Readable(LastResponse)
              /\ LastResponse.json["status"] = "COMPLETED"
              /\ generated_video_url = LastResponse.json["outputUrl"]
        /\ (Readable(LastResponse)
              /\ LastResponse.json["status"] \in {"FAILED", "REJECTED", "CANCELLED"})
              => PollRaised /\ l_error = "Lip sync job failed"
        /\ (Readable(LastResponse)
              /\ LastResponse.json["status"]
                    \notin {"COMPLETED", "FAILED", "REJECTED", "CANCELLED"})
              => l_pc = "poll" /\ sleeps = Len(responses)
        /\ (PollReturned \/ PollRaised) =>
              \/ ~Readable(LastResponse)
              \/ LastResponse.json["status"]
                    \in {"COMPLETED", "FAILED", "REJECTED", "CANCELLED"}
        /\ \A k \in 1..(Len(responses) - 1) :
              /\ Readable(responses[k])
              /\ responses[k].json["status"]
                    \notin {"COMPLETED", "FAILED", "REJECTED", "CANCELLED"}
        /\ l_pc = "returned" => output_video_url = generated_video_url

\* a job that was still running at two polls and completed at the third
C27_Witness ==
    /\ l_pc = "returned"
    /\ sleeps = 2
    /\ Len(responses) = 3
    /\ output_video_url = "u1"

====
